---- MODULE Spec2Model ----
(***************************************************************************)
(* A model of m1nuz/vulkan-renderer: the frame protocol of                 *)
(* Renderer.cpp (begin_frame / draw_frame), the application entry          *)
(* Application::run, and context creation Vulkan::create_device.           *)
(*                                                                         *)
(* The specifications of the module:                                       *)
(*   SpecFrame     repeated calls of begin_frame against an asynchronous   *)
(*                 GPU and presentation engine;                            *)
(*   Spec          Application::run from storage open to process exit;     *)
(*   SpecDevice    create_device over every outcome of its GPU calls;      *)
(*   SpecTeardown  destroy_device and destroy_renderer, call by call,      *)
(*                 beside a GPU that may still be executing;               *)
(*   SpecSwapchain create_swapchain over every outcome of its GPU calls;   *)
(*   SpecSuitable  is_device_suitable over every list of queue families;   *)
(*   SpecNumImages get_swap_chain_num_images in 32-bit arithmetic;         *)
(*   SpecStorage   Storage::open followed by calls of Storage::get_shader. *)
(***************************************************************************)
EXTENDS Integers, Sequences, FiniteSets, TLC

(***************************************************************************)
(* Bounds of the model.                                                    *)
(***************************************************************************)
\* calls of begin_frame in one behaviour
MaxIter == 3
\* largest number of frame slots F a swapchain is created with
MaxFrames == 2
\* calls of draw_frame in one run of the application
MaxDraws == 3
\* largest number of images vkGetSwapchainImagesKHR reports
MaxImages == 2
\* largest number of queue families of a physical device
MaxFamilies == 2
\* image counts are taken within this distance of 0 and of UINT32_MAX
Near == 3
\* largest number of root paths handed to Storage::open
MaxRoots == 2
\* calls of Storage::get_shader in one behaviour
MaxGets == 2
\* calls of Storage::open on one storage
MaxOpens == 2
\* shaders handed to create_graphics_pipeline
MaxShaders == 2
\* largest width and height of a window and of a surface extent
MaxDim == 3

VARIABLES
    \* ---- frame protocol: Renderer.cpp begin_frame ----
    pc,                   \* the Vulkan call begin_frame makes next, or "returned"
    frame,                \* number of begin_frame calls started
    ret,                  \* frame -> what begin_frame returned ("none", "true", "false")
    max_frames_in_flight, \* SwapChain::max_frames_in_flight (F)
    current_frame,        \* SwapChain::current_frame
    in_flight_fence,      \* Renderer::in_flight_fence is signaled
    sem,                  \* semaphore name -> signaled
    acq,                  \* frame -> result of vkAcquireNextImageKHR
    sub,                  \* frame -> result of vkQueueSubmit
    pres,                 \* frame -> result of vkQueuePresentKHR
    acq_pending,          \* frames whose acquired image is not yet released to us
    image_ready,          \* frame -> the presentation engine released the image
    batch,                \* frame -> state of the submitted batch on the GPU
    resets,               \* frame -> vkResetCommandBuffer was called
    present_queue,        \* presentation requests in issue order
    presented,            \* frame -> the image reached the display
    journal,              \* messages written by Journal::error in begin_frame
    \* ---- application: Application.cpp run ----
    app_pc,               \* position of Application::run
    storage,              \* the descriptors (id, name) Storage::open registered
    window,               \* the GLFW window exists
    should_close,         \* glfwWindowShouldClose(window)
    renderer,             \* the optional<Renderer> create_renderer returned
    running,              \* the local `running` of run
    draws,                \* calls of draw_frame
    polls,                \* calls of process_window_events
    failed_step,          \* the bootstrap step that failed, "none" if none did
    trace,                \* construction and teardown calls of run, in order
    status,               \* what run returned
    \* ---- context: Vulkan.cpp create_device ----
    dev_pc,               \* "call" before create_device, "created" after
    info,                 \* CreateDeviceInfo
    gpu,                  \* outcome of each GPU call create_device makes
    device,               \* the Device create_device returned
    \* ---- teardown: Vulkan.cpp destroy_device, Renderer.cpp destroy_renderer ----
    td_kind,              \* the function running: "destroy_device" or "destroy_renderer"
    td_device,            \* the Device handed to destroy_device
    td_calls,             \* the calls that function makes on its argument, in order
    td_done,              \* how many of them have returned
    gpu_busy,             \* submitted GPU work is still executing
    td_wait,              \* what vkDeviceWaitIdle returned, "none" before it
    td_hazard,            \* objects destroyed while the GPU was executing
    \* ---- swapchain: Vulkan.cpp create_swapchain ----
    sc_pc,                \* "call" before create_swapchain, then "returned" or "terminated"
    frame_in_flights,     \* the argument frame_in_flights
    sc_gpu,               \* outcome of each GPU call create_swapchain makes
    swapchain,            \* the optional<SwapChain> create_swapchain returned
    window_size,          \* the arguments width and height
    surface_extents,      \* currentExtent, minImageExtent, maxImageExtent of the surface
    extents,              \* SwapChain::extent and the extent of the framebuffers created
    \* ---- physical device: Vulkan.cpp is_device_suitable ----
    qf_pc,                \* "call" before is_device_suitable, "returned" after
    physical_device,      \* properties and queue families of the device examined
    selected,             \* the value returned and the two selected family indices
    \* ---- image count: Vulkan.cpp get_swap_chain_num_images ----
    ic_pc,                \* "call" before get_swap_chain_num_images, "returned" after
    capabilities,         \* minImageCount and maxImageCount of VkSurfaceCapabilitiesKHR
    image_count,          \* the value returned
    \* ---- resource store: Storage.cpp open, get_shader ----
    st_pc,                \* "closed" before open, then "opened", or "thrown"
    names,                \* the root paths given to open, each with what is on disk there
    readable,             \* file name -> Content::read can read the file
    assets,               \* Storage::assets, each asset the set of its ResourceDesc
    open_returned,        \* what open returned ("none", "true", "false")
    st_journal,           \* the roots Journal::warning reported as missing
    reads,                \* file name -> number of Content::read calls on it
    gets,                 \* the get_shader calls made, each with what it returned
    opens,                \* number of open calls that returned
    pl_pc,                \* create_graphics_pipeline: "call" or "returned"
    shaders,              \* info.shaders: the ShaderType of each supplied shader
    pl_gpu,               \* which Vulkan calls of create_graphics_pipeline fail
    graphics_pipeline,    \* the Pipeline returned
    stages,               \* the stages the returned pipeline object was built from
    shader_modules,       \* shader modules created and not destroyed
    pl_leaked,            \* other objects created and neither returned nor destroyed
    \* ---- object lifetime: Renderer.cpp create_renderer, destroy_renderer ----
    lt_pc,                \* "create_renderer", "destroy_renderer" or "returned"
    lt_in,                \* the failing step and the outcomes of the creation calls
    lt_alive,             \* the Vulkan objects alive
    lt_held,              \* the objects whose handles the Renderer holds
    lt_done,              \* calls of destroy_renderer made
    lt_destroyed          \* the objects destroyed, in order

frame_vars == <<pc, frame, ret, max_frames_in_flight, current_frame, in_flight_fence,
                sem, acq, sub, pres, acq_pending, image_ready, batch, resets,
                present_queue, presented, journal>>
app_vars == <<app_pc, storage, window, should_close, renderer, running, draws, polls,
              failed_step, trace, status>>
dev_vars == <<dev_pc, info, gpu, device>>
td_vars == <<td_kind, td_device, td_calls, td_done, gpu_busy, td_wait, td_hazard>>
sc_vars == <<sc_pc, frame_in_flights, sc_gpu, swapchain, window_size, surface_extents, extents>>
qf_vars == <<qf_pc, physical_device, selected>>
ic_vars == <<ic_pc, capabilities, image_count>>
st_vars == <<st_pc, names, readable, assets, open_returned, st_journal, reads, gets, opens>>
pl_vars == <<pl_pc, shaders, pl_gpu, graphics_pipeline, stages, shader_modules, pl_leaked>>
lt_vars == <<lt_pc, lt_in, lt_alive, lt_held, lt_done, lt_destroyed>>
more_vars == <<pl_vars, lt_vars>>
lib_vars == <<td_vars, sc_vars, qf_vars, ic_vars, st_vars, more_vars>>
vars == <<frame_vars, app_vars, dev_vars, lib_vars>>

Frames == 1..MaxIter

(***************************************************************************)
(* Vulkan result codes the code distinguishes.                             *)
(***************************************************************************)
AcquireResults == {"VK_SUCCESS", "VK_SUBOPTIMAL_KHR", "VK_ERROR_OUT_OF_DATE_KHR", "VK_ERROR_OTHER"}
SubmitResults == {"VK_SUCCESS", "VK_ERROR_OTHER"}
PresentResults == {"VK_SUCCESS", "VK_SUBOPTIMAL_KHR", "VK_ERROR_OUT_OF_DATE_KHR", "VK_ERROR_OTHER"}

\* The semaphore each queue operation of begin_frame names.
acquire_signal_semaphore == "image_available_semaphore"
submit_wait_semaphore == "image_available_semaphore"
submit_signal_semaphore == "rendering_finished_semaphore"
present_wait_semaphore_swapped == "image_available_semaphore"
present_wait_semaphore == "rendering_finished_semaphore"
Semaphores == {"image_available_semaphore", "rendering_finished_semaphore"}

\* A batch is outstanding from vkQueueSubmit until the GPU completes it.
Outstanding == {n \in Frames : batch[n] \in {"queued", "colour_output"}}

(***************************************************************************)
(* begin_frame, one action per Vulkan call.                                *)
(***************************************************************************)
frame_defaults ==
    /\ pc = "returned"
    /\ frame = 0
    /\ ret = [n \in Frames |-> "none"]
    /\ max_frames_in_flight = 1
    /\ current_frame = 0
    /\ in_flight_fence = TRUE
    /\ sem = [s \in Semaphores |-> FALSE]
    /\ acq = [n \in Frames |-> "none"]
    /\ sub = [n \in Frames |-> "none"]
    /\ pres = [n \in Frames |-> "none"]
    /\ acq_pending = {}
    /\ image_ready = [n \in Frames |-> FALSE]
    /\ batch = [n \in Frames |-> "none"]
    /\ resets = [n \in Frames |-> FALSE]
    /\ present_queue = <<>>
    /\ presented = [n \in Frames |-> FALSE]
    /\ journal = <<>>

\* The caller enters begin_frame.
CallBeginFrame ==
    /\ pc = "returned"
    /\ frame < MaxIter
    /\ frame' = frame + 1
    /\ pc' = "vkWaitForFences"
    /\ UNCHANGED <<ret, max_frames_in_flight, current_frame, in_flight_fence, sem, acq, sub,
                   pres, acq_pending, image_ready, batch, resets, present_queue, presented,
                   journal>>

\* vkWaitForFences that does not block (the mutation of WaitForFences).
WaitForFences_no_wait ==
    /\ pc = "vkWaitForFences"
    /\ pc' = "vkResetFences"
    /\ UNCHANGED <<frame, ret, max_frames_in_flight, current_frame, in_flight_fence, sem, acq,
                   sub, pres, acq_pending, image_ready, batch, resets, present_queue,
                   presented, journal>>

\* vkWaitForFences(in_flight_fence, UINT64_MAX): returns once the fence is signaled.
WaitForFences ==
    /\ pc = "vkWaitForFences"
    /\ in_flight_fence
    /\ pc' = "vkResetFences"
    /\ UNCHANGED <<frame, ret, max_frames_in_flight, current_frame, in_flight_fence, sem, acq,
                   sub, pres, acq_pending, image_ready, batch, resets, present_queue,
                   presented, journal>>

\* begin_frame without its vkResetFences (the mutation of ResetFences).
ResetFences_skipped ==
    /\ pc = "vkResetFences"
    /\ pc' = "vkAcquireNextImageKHR"
    /\ UNCHANGED <<frame, ret, max_frames_in_flight, current_frame, in_flight_fence, sem, acq,
                   sub, pres, acq_pending, image_ready, batch, resets, present_queue,
                   presented, journal>>

\* vkResetFences(in_flight_fence)
ResetFences ==
    /\ pc = "vkResetFences"
    /\ in_flight_fence' = FALSE
    /\ pc' = "vkAcquireNextImageKHR"
    /\ UNCHANGED <<frame, ret, max_frames_in_flight, current_frame, sem, acq, sub, pres,
                   acq_pending, image_ready, batch, resets, present_queue, presented, journal>>

\* The switch on the result of vkAcquireNextImageKHR: TRUE when begin_frame goes on.
acquire_proceeds_always(result) == TRUE
acquire_proceeds(result) == result \in {"VK_SUCCESS", "VK_SUBOPTIMAL_KHR"}

\* An acquisition that returns VK_SUCCESS or VK_SUBOPTIMAL_KHR hands out an image
\* and will signal the semaphore; an error returns no image and signals nothing.
AcquireNextImage ==
    /\ pc = "vkAcquireNextImageKHR"
    /\ \E result \in AcquireResults :
        /\ acq' = [acq EXCEPT ![frame] = result]
        /\ acq_pending' = IF result \in {"VK_SUCCESS", "VK_SUBOPTIMAL_KHR"}
                          THEN acq_pending \cup {frame} ELSE acq_pending
        /\ IF acquire_proceeds(result)
           THEN /\ pc' = "vkResetCommandBuffer"
                /\ UNCHANGED <<journal, ret>>
           ELSE /\ journal' = Append(journal, "Problem occurred during swap chain image acquisition!")
                /\ ret' = [ret EXCEPT ![frame] = "false"]
                /\ pc' = "returned"
    /\ UNCHANGED <<frame, max_frames_in_flight, current_frame, in_flight_fence, sem, sub, pres,
                   image_ready, batch, resets, present_queue, presented>>

ResetCommandBuffer ==
    /\ pc = "vkResetCommandBuffer"
    /\ resets' = [resets EXCEPT ![frame] = TRUE]
    /\ pc' = "vkQueueSubmit"
    /\ UNCHANGED <<frame, ret, max_frames_in_flight, current_frame, in_flight_fence, sem, acq,
                   sub, pres, acq_pending, image_ready, batch, present_queue, presented,
                   journal>>

\* vkQueueSubmit(graphics_queue, submit_info, in_flight_fence)
QueueSubmit ==
    /\ pc = "vkQueueSubmit"
    /\ \E result \in SubmitResults :
        /\ sub' = [sub EXCEPT ![frame] = result]
        /\ IF result = "VK_SUCCESS"
           THEN /\ batch' = [batch EXCEPT ![frame] = "queued"]
                /\ pc' = "vkQueuePresentKHR"
                /\ UNCHANGED ret
           ELSE /\ ret' = [ret EXCEPT ![frame] = "false"]
                /\ pc' = "returned"
                /\ UNCHANGED batch
    /\ UNCHANGED <<frame, max_frames_in_flight, current_frame, in_flight_fence, sem, acq, pres,
                   acq_pending, image_ready, resets, present_queue, presented, journal>>

\* vkQueuePresentKHR(present_queue, present_info): the request is queued with its
\* semaphore wait for every result modelled (a request the presentation engine
\* rejects still executes its wait); only VK_SUCCESS makes begin_frame return true.
QueuePresent ==
    /\ pc = "vkQueuePresentKHR"
    /\ \E result \in PresentResults :
        /\ pres' = [pres EXCEPT ![frame] = result]
        /\ present_queue' = Append(present_queue, frame)
        /\ IF result = "VK_SUCCESS"
           THEN /\ ret' = [ret EXCEPT ![frame] = "true"]
                /\ UNCHANGED journal
           ELSE /\ journal' = Append(journal, "Problem occurred during image presentation!")
                /\ ret' = [ret EXCEPT ![frame] = "false"]
    /\ pc' = "returned"
    /\ UNCHANGED <<frame, max_frames_in_flight, current_frame, in_flight_fence, sem, acq, sub,
                   acq_pending, image_ready, batch, resets, presented>>

(***************************************************************************)
(* The GPU and the presentation engine, running beside the CPU.            *)
(***************************************************************************)
\* The presentation engine releases the acquired image and signals the semaphore
\* vkAcquireNextImageKHR was given.
ImageAcquired ==
    \E n \in acq_pending :
        /\ acq_pending' = acq_pending \ {n}
        /\ image_ready' = [image_ready EXCEPT ![n] = TRUE]
        /\ sem' = [sem EXCEPT ![acquire_signal_semaphore] = TRUE]
        /\ UNCHANGED <<pc, frame, ret, max_frames_in_flight, current_frame, in_flight_fence,
                       acq, sub, pres, batch, resets, present_queue, presented, journal>>

\* The batch reaches the colour-attachment-output stage: it waits there on the
\* semaphore of pWaitSemaphores and unsignals it.
ColourOutputBegins ==
    \E n \in Frames :
        /\ batch[n] = "queued"
        /\ sem[submit_wait_semaphore]
        /\ sem' = [sem EXCEPT ![submit_wait_semaphore] = FALSE]
        /\ batch' = [batch EXCEPT ![n] = "colour_output"]
        /\ UNCHANGED <<pc, frame, ret, max_frames_in_flight, current_frame, in_flight_fence,
                       acq, sub, pres, acq_pending, image_ready, resets, present_queue,
                       presented, journal>>

\* The batch completes: it signals pSignalSemaphores and the fence of the submit.
BatchCompletes ==
    \E n \in Frames :
        /\ batch[n] = "colour_output"
        /\ batch' = [batch EXCEPT ![n] = "complete"]
        /\ sem' = [sem EXCEPT ![submit_signal_semaphore] = TRUE]
        /\ in_flight_fence' = TRUE
        /\ UNCHANGED <<pc, frame, ret, max_frames_in_flight, current_frame, acq, sub, pres,
                       acq_pending, image_ready, resets, present_queue, presented, journal>>

\* The presentation engine serves requests in issue order: it waits on the
\* semaphore of the request, unsignals it, and shows the image unless it had
\* rejected the request.
PresentationEngine ==
    /\ present_queue # <<>>
    /\ sem[present_wait_semaphore]
    /\ LET n == Head(present_queue) IN
        /\ sem' = [sem EXCEPT ![present_wait_semaphore] = FALSE]
        /\ presented' = [presented EXCEPT ![n] = pres[n] \in {"VK_SUCCESS", "VK_SUBOPTIMAL_KHR"}]
        /\ present_queue' = Tail(present_queue)
    /\ UNCHANGED <<pc, frame, ret, max_frames_in_flight, current_frame, in_flight_fence, acq,
                   sub, pres, acq_pending, image_ready, batch, resets, journal>>

(***************************************************************************)
(* draw_frame: its body is two commented-out calls, so it touches nothing. *)
(***************************************************************************)
draw_frame == UNCHANGED frame_vars

(***************************************************************************)
(* Storage, as far as Application::run and create_renderer use it.         *)
(***************************************************************************)
\* The files a root directory may hold.
FileNames == {"Base.vert.spv", "Base.frag.spv", "Pack.asset"}

\* fs::path::extension over FileNames
extension(name) ==
    CASE name \in {"Base.vert.spv", "Base.frag.spv"} -> ".spv"
      [] name = "Pack.asset" -> ".asset"
      [] OTHER -> ""

\* is_shader that accepts every extension (the mutation).
is_shader_any(name) == TRUE
\* is_shader: the extension is ".spv".
is_shader(name) == extension(name) = ".spv"

\* XXH64("shader:" + name, 123), written as a decimal string.
get_resource_id(name) ==
    CASE name = "Base.vert.spv" -> "3027544629138209736"
      [] name = "Base.frag.spv" -> "4263377347285878457"
      [] OTHER -> "0"

\* The identifiers create_renderer asks the storage for.
frag_id == "4263377347285878457"
vert_id == "3027544629138209736"

\* Storage::open over an existing root holding `files`: the descriptors it
\* registers and the value it returns.
open_descriptors(files) == {[id |-> get_resource_id(f), name |-> f] : f \in {g \in files : is_shader(g)}}
open_result(files) == (\E f \in files : extension(f) = ".asset") \/ open_descriptors(files) # {}

\* get_shader finds a descriptor with this id (it returns nullptr otherwise).
get_shader_found(st, id) == \E r \in st : r.id = id

(***************************************************************************)
(* create_renderer                                                         *)
(***************************************************************************)
\* The steps of create_renderer that return an empty optional on failure, in order.
RendererSteps == <<"create_vulkan_instance", "glfwCreateWindowSurface", "pick_physical_device",
                   "create_logical_device", "create_swapchain", "create_synchronization_objects",
                   "vkCreateCommandPool", "vkAllocateCommandBuffers", "vkCreateRenderPass">>
RendererStepSet == {RendererSteps[i] : i \in 1..Len(RendererSteps)}

\* What the GPU calls of one create_renderer do: the first step that fails
\* ("none" if none), whether create_graphics_pipeline yields a valid Pipeline, and
\* what dereferencing a null ShaderProgramInfo pointer does.
RendererOutcomes == [fails_at : RendererStepSet \cup {"none"},
                     pipeline : BOOLEAN,
                     null_deref : {"crash", "garbage"}]

NoRenderer == [has_value |-> FALSE, instance |-> FALSE, physical_device |-> FALSE,
               device |-> FALSE, swapchain |-> FALSE, graphics_pipeline |-> FALSE]

\* The step of create_renderer that went wrong, "none" if none did.
create_renderer_failure(st, g) ==
    IF g.fails_at # "none" THEN g.fails_at
    ELSE IF ~(get_shader_found(st, frag_id) /\ get_shader_found(st, vert_id)) THEN "get_shader"
    ELSE IF ~g.pipeline THEN "create_graphics_pipeline"
    ELSE "none"

\* Dereferencing the null pointer get_shader returned for a missing shader ends
\* the process (one of the outcomes of that undefined behaviour).
create_renderer_crashes(st, g) ==
    /\ g.fails_at = "none"
    /\ ~(get_shader_found(st, frag_id) /\ get_shader_found(st, vert_id))
    /\ g.null_deref = "crash"

\* The optional<Renderer> create_renderer returns when it returns.
create_renderer(st, g) ==
    IF g.fails_at # "none" THEN NoRenderer
    ELSE [has_value |-> TRUE, instance |-> TRUE, physical_device |-> TRUE, device |-> TRUE,
          swapchain |-> TRUE, graphics_pipeline |-> g.pipeline]

\* SwapChain::is_valid: handle != VK_NULL_HANDLE
SwapChain_is_valid(handle) == handle

\* Renderer::is_valid; its last conjunct is !swapchain.
Renderer_is_valid(r) ==
    r.instance /\ r.physical_device /\ r.device /\ ~SwapChain_is_valid(r.swapchain)

(***************************************************************************)
(* Window.cpp                                                              *)
(***************************************************************************)
\* process_window_events that reports a close on every call (the mutation).
process_window_events_closes(close_flag) == FALSE
\* The value process_window_events returns, given glfwWindowShouldClose.
process_window_events(close_flag) == ~close_flag

(***************************************************************************)
(* Application::run, one action per call it makes.                         *)
(***************************************************************************)
app_defaults ==
    /\ app_pc = "Storage::open"
    /\ storage = {}
    /\ window = FALSE
    /\ should_close = FALSE
    /\ renderer = NoRenderer
    /\ running = FALSE
    /\ draws = 0
    /\ polls = 0
    /\ failed_step = "none"
    /\ trace = <<>>
    /\ status = "none"

\* Storage::open(storage, {"../Assets"}): a missing root makes
\* fs::recursive_directory_iterator throw, and run catches nothing.
StorageOpen ==
    /\ app_pc = "Storage::open"
    /\ \/ /\ app_pc' = "terminated"
          /\ failed_step' = "Storage::open"
          /\ UNCHANGED <<storage, status>>
       \/ \E files \in SUBSET FileNames :
            /\ storage' = open_descriptors(files)
            /\ IF open_result(files)
               THEN /\ app_pc' = "create_window"
                    /\ UNCHANGED <<failed_step, status>>
               ELSE /\ app_pc' = "returned"
                    /\ failed_step' = "Storage::open"
                    /\ status' = "EXIT_FAILURE"
    /\ UNCHANGED <<window, should_close, renderer, running, draws, polls, trace>>
    /\ UNCHANGED <<frame_vars, dev_vars, lib_vars>>

\* glfwInit and Window::create_window
CreateWindow ==
    /\ app_pc = "create_window"
    /\ \E ok \in BOOLEAN :
        IF ok
        THEN /\ window' = TRUE
             /\ trace' = trace \o <<"glfwInit", "create_window">>
             /\ app_pc' = "create_renderer"
             /\ UNCHANGED <<failed_step, status>>
        ELSE /\ trace' = trace \o <<"glfwInit", "glfwTerminate">>
             /\ failed_step' = "create_window"
             /\ status' = "EXIT_FAILURE"
             /\ app_pc' = "returned"
             /\ UNCHANGED window
    /\ UNCHANGED <<storage, should_close, renderer, running, draws, polls>>
    /\ UNCHANGED <<frame_vars, dev_vars, lib_vars>>

\* Renderer::create_renderer and the test of its result in run
CreateRenderer ==
    /\ app_pc = "create_renderer"
    /\ \E g \in RendererOutcomes :
        LET r == create_renderer(storage, g) IN
        /\ failed_step' = create_renderer_failure(storage, g)
        /\ IF create_renderer_crashes(storage, g)
           THEN /\ app_pc' = "terminated"
                /\ UNCHANGED <<renderer, running, trace, status>>
           ELSE IF ~r.has_value
           THEN /\ trace' = Append(trace, "glfwTerminate")
                /\ status' = "EXIT_FAILURE"
                /\ app_pc' = "returned"
                /\ UNCHANGED <<renderer, running>>
           ELSE /\ renderer' = r
                /\ running' = TRUE
                /\ trace' = Append(trace, "create_renderer")
                /\ app_pc' = "draw_frame"
                /\ UNCHANGED status
    /\ UNCHANGED <<storage, window, should_close, draws, polls>>
    /\ UNCHANGED <<frame_vars, dev_vars, lib_vars>>

\* Renderer::draw_frame(*renderer) in the loop
DrawFrame ==
    /\ app_pc = "draw_frame"
    /\ draws < MaxDraws
    /\ draws' = draws + 1
    /\ draw_frame
    /\ app_pc' = "process_window_events"
    /\ UNCHANGED <<storage, window, should_close, renderer, running, polls, failed_step, trace,
                   status>>
    /\ UNCHANGED <<dev_vars, lib_vars>>

\* running = Window::process_window_events(window), then the loop test. When the
\* window is not closing, glfwPollEvents runs the callbacks, which may set the
\* close flag.
ProcessWindowEvents ==
    /\ app_pc = "process_window_events"
    /\ polls' = polls + 1
    /\ running' = process_window_events(should_close)
    /\ IF should_close THEN UNCHANGED should_close ELSE should_close' \in BOOLEAN
    /\ app_pc' = IF running' THEN "draw_frame" ELSE "destroy_renderer"
    /\ UNCHANGED <<storage, window, renderer, draws, failed_step, trace, status>>
    /\ UNCHANGED <<frame_vars, dev_vars, lib_vars>>

DestroyRenderer ==
    /\ app_pc = "destroy_renderer"
    /\ renderer' = NoRenderer
    /\ trace' = Append(trace, "destroy_renderer")
    /\ app_pc' = "destroy_window"
    /\ UNCHANGED <<storage, window, should_close, running, draws, polls, failed_step, status>>
    /\ UNCHANGED <<frame_vars, dev_vars, lib_vars>>

DestroyWindow ==
    /\ app_pc = "destroy_window"
    /\ window' = FALSE
    /\ trace' = Append(trace, "destroy_window")
    /\ app_pc' = "glfwTerminate"
    /\ UNCHANGED <<storage, should_close, renderer, running, draws, polls, failed_step, status>>
    /\ UNCHANGED <<frame_vars, dev_vars, lib_vars>>

\* glfwTerminate and return EXIT_SUCCESS
Terminate ==
    /\ app_pc = "glfwTerminate"
    /\ trace' = Append(trace, "glfwTerminate")
    /\ status' = "EXIT_SUCCESS"
    /\ app_pc' = "returned"
    /\ UNCHANGED <<storage, window, should_close, renderer, running, draws, polls, failed_step>>
    /\ UNCHANGED <<frame_vars, dev_vars, lib_vars>>

(***************************************************************************)
(* create_device                                                           *)
(***************************************************************************)
DeviceInfos == [validate : BOOLEAN, max_frames_in_flight : 0..MaxFrames]

\* What each GPU call of create_device does; command_buffers is the number of
\* vkAllocateCommandBuffers calls that succeed before one fails.
DeviceOutcomes == [instance : BOOLEAN, debug_messenger : BOOLEAN, surface : BOOLEAN,
                   physical_device : BOOLEAN, logical_device : BOOLEAN,
                   command_pool : BOOLEAN, command_buffers : 0..MaxFrames]

\* Device {}: every handle VK_NULL_HANDLE, no command buffers.
NullDevice == [instance |-> FALSE, device |-> FALSE, physical_device |-> FALSE,
               presentation_surface |-> FALSE, debug_messenger |-> FALSE,
               present_queue_command_pool |-> FALSE, present_queue_command_buffers |-> 0]

\* create_device that hands back what it has when an allocation of a command
\* buffer fails (the mutation).
create_device_partial(i, g) ==
    IF ~g.instance \/ ~g.surface \/ ~g.physical_device \/ ~g.logical_device \/ ~g.command_pool
    THEN NullDevice
    ELSE [instance |-> TRUE, device |-> TRUE, physical_device |-> TRUE,
          presentation_surface |-> TRUE,
          debug_messenger |-> i.validate /\ g.debug_messenger,
          present_queue_command_pool |-> TRUE,
          present_queue_command_buffers |->
              IF g.command_buffers < i.max_frames_in_flight
              THEN g.command_buffers ELSE i.max_frames_in_flight]

create_device(i, g) ==
    IF ~g.instance THEN NullDevice
    ELSE IF ~g.surface THEN NullDevice
    ELSE IF ~g.physical_device THEN NullDevice
    ELSE IF ~g.logical_device THEN NullDevice
    ELSE IF ~g.command_pool THEN NullDevice
    ELSE IF g.command_buffers < i.max_frames_in_flight THEN NullDevice
    ELSE [instance |-> TRUE, device |-> TRUE, physical_device |-> TRUE,
          presentation_surface |-> TRUE,
          debug_messenger |-> i.validate /\ g.debug_messenger,
          present_queue_command_pool |-> TRUE,
          present_queue_command_buffers |-> i.max_frames_in_flight]

\* Device::is_valid
Device_is_valid(d) == d.instance /\ d.device /\ d.presentation_surface

dev_defaults ==
    /\ dev_pc = "call"
    /\ info = [validate |-> TRUE, max_frames_in_flight |-> 0]
    /\ gpu = [instance |-> TRUE, debug_messenger |-> TRUE, surface |-> TRUE,
              physical_device |-> TRUE, logical_device |-> TRUE, command_pool |-> TRUE,
              command_buffers |-> 0]
    /\ device = NullDevice

CreateDevice ==
    /\ dev_pc = "call"
    /\ device' = create_device(info, gpu)
    /\ dev_pc' = "created"
    /\ UNCHANGED <<info, gpu>>
    /\ UNCHANGED <<frame_vars, app_vars, lib_vars>>

(***************************************************************************)
(* Teardown: destroy_device, destroy_swapchain and destroy_renderer as the *)
(* calls they make, in the order they make them.                           *)
(***************************************************************************)
\* One Vulkan call of a teardown: the call, the object it releases ("none" for a
\* wait) and the function that makes it.
Call(c, o, f) == [call |-> c, object |-> o, by |-> f]

\* The objects create_device creates for the Device d it returns, in the order
\* it creates them.
create_device_order(d) ==
    <<"instance">>
    \o (IF d.debug_messenger THEN <<"debug_messenger">> ELSE <<>>)
    \o <<"presentation_surface", "device", "present_queue_command_pool">>

\* destroy_logical_device
destroy_logical_device_calls(f) ==
    <<Call("vkDeviceWaitIdle", "none", f), Call("vkDestroyDevice", "device", f)>>

\* destroy_device(device)
destroy_device_calls(d) ==
    <<Call("vkDestroyCommandPool", "present_queue_command_pool", "destroy_device")>>
    \o destroy_logical_device_calls("destroy_device")
    \o <<Call("vkDestroySurfaceKHR", "presentation_surface", "destroy_device")>>
    \o (IF d.debug_messenger
        THEN <<Call("destroy_debug_messager", "debug_messenger", "destroy_device")>>
        ELSE <<>>)
    \o <<Call("vkDestroyInstance", "instance", "destroy_device")>>

\* destroy_swapchain(device, swapchain); each loop over a vector is one entry.
destroy_swapchain_calls ==
    <<Call("vkDestroySemaphore", "swapchain.image_available_semaphores", "destroy_swapchain"),
      Call("vkDestroySemaphore", "swapchain.render_finished_semaphores", "destroy_swapchain"),
      Call("vkDestroyFence", "swapchain.in_flight_fences", "destroy_swapchain"),
      Call("vkDestroyRenderPass", "swapchain.render_pass", "destroy_swapchain"),
      Call("vkDestroyFramebuffer", "swapchain.framebuffes", "destroy_swapchain"),
      Call("vkDestroyImageView", "swapchain.views", "destroy_swapchain"),
      Call("vkDestroySwapchainKHR", "swapchain.handle", "destroy_swapchain")>>

\* destroy_renderer(renderer), for a renderer created with validate = debug
destroy_renderer_calls(debug) ==
    <<Call("vkDestroyPipeline", "graphics_pipeline.pipeline", "destroy_renderer"),
      Call("vkDestroyPipelineLayout", "graphics_pipeline.layout", "destroy_renderer"),
      Call("vkDestroyRenderPass", "render_pass", "destroy_renderer"),
      Call("vkDestroyCommandPool", "present_queue_command_pool", "destroy_renderer"),
      Call("vkDestroySemaphore", "image_available_semaphore", "destroy_renderer"),
      Call("vkDestroySemaphore", "rendering_finished_semaphore", "destroy_renderer"),
      Call("vkDestroyFence", "in_flight_fence", "destroy_renderer")>>
    \o destroy_swapchain_calls
    \o destroy_logical_device_calls("destroy_renderer")
    \o <<Call("vkDestroySurfaceKHR", "presentation_surface", "destroy_renderer")>>
    \o (IF debug THEN <<Call("Debugging::cleanup", "debug_messenger", "destroy_renderer")>> ELSE <<>>)
    \o <<Call("vkDestroyInstance", "instance", "destroy_renderer")>>

\* The Devices create_device can return that are valid.
ValidDevices == {d \in {create_device(i, g) : i \in DeviceInfos, g \in DeviceOutcomes} :
                    Device_is_valid(d)}

td_defaults ==
    /\ td_kind = "none"
    /\ td_device = NullDevice
    /\ td_calls = <<>>
    /\ td_done = 0
    /\ gpu_busy = FALSE
    /\ td_wait = "none"
    /\ td_hazard = {}

\* The next call of the running teardown releases an object: vkDestroy*.
DestroyCall ==
    /\ td_done < Len(td_calls)
    /\ LET c == td_calls[td_done + 1] IN
        /\ c.object # "none"
        /\ td_hazard' = IF gpu_busy THEN td_hazard \cup {c.object} ELSE td_hazard
    /\ td_done' = td_done + 1
    /\ UNCHANGED <<td_kind, td_device, td_calls, gpu_busy, td_wait>>

\* vkDeviceWaitIdle(device) in destroy_logical_device: it returns VK_SUCCESS once
\* nothing executes on the device, or an error (the device is lost, and nothing
\* executes on it any more); destroy_logical_device logs the error and goes on.
DeviceWaitIdle ==
    /\ td_done < Len(td_calls)
    /\ td_calls[td_done + 1].call = "vkDeviceWaitIdle"
    /\ \E res \in {"VK_SUCCESS", "VK_ERROR_DEVICE_LOST"} :
        /\ res = "VK_SUCCESS" => ~gpu_busy
        /\ td_wait' = res
    /\ gpu_busy' = FALSE
    /\ td_done' = td_done + 1
    /\ UNCHANGED <<td_kind, td_device, td_calls, td_hazard>>

\* The GPU finishes the work that was submitted to it.
GpuCompletes ==
    /\ gpu_busy
    /\ gpu_busy' = FALSE
    /\ UNCHANGED <<td_kind, td_device, td_calls, td_done, td_wait, td_hazard>>

(***************************************************************************)
(* create_swapchain                                                        *)
(***************************************************************************)
\* What the GPU calls of one create_swapchain do: the query of
\* query_swapchain_support that fails ("none" if none), whether
\* vkCreateSwapchainKHR succeeds, the image count vkGetSwapchainImagesKHR reports,
\* how many vkCreateImageView and vkCreateFramebuffer calls succeed before one
\* fails, whether vkCreateRenderPass succeeds, for how many frame slots the
\* semaphores and the fence are created before one creation fails, and what
\* indexing element 0 of an empty vector does.
SwapchainOutcomes == [query_fails : {"none", "capabilities", "formats", "present_modes"},
                      chain : BOOLEAN,
                      image_count : 0..MaxImages,
                      views : 0..MaxImages,
                      render_pass : BOOLEAN,
                      framebuffers : 0..MaxImages,
                      sync : 0..MaxFrames,
                      empty_index : {"crash", "benign"}]

\* An empty optional<SwapChain>; the fields are those of a default SwapChain.
NoSwapChain == [has_value |-> FALSE, handle |-> FALSE, render_pass |-> FALSE,
                max_frames_in_flight |-> 0, images |-> <<>>, views |-> <<>>,
                framebuffes |-> <<>>, image_available_semaphores |-> 0,
                render_finished_semaphores |-> 0, in_flight_fences |-> 0]

\* query_swapchain_support returns a value
query_swapchain_support(g) == g.query_fails = "none"

\* create_image_views: view i is a view of image i; an empty vector when a
\* vkCreateImageView fails.
create_image_views(images, g) ==
    IF g.views >= Len(images) THEN [i \in 1..Len(images) |-> images[i]] ELSE <<>>

\* create_framebuffers: framebuffer i is bound to view i; an empty vector when a
\* vkCreateFramebuffer fails.
create_framebuffers(image_views, g) ==
    IF g.framebuffers >= Len(image_views) THEN [i \in 1..Len(image_views) |-> image_views[i]] ELSE <<>>

\* The flags every fence of create_frame_sync_objects is created with.
fence_create_info_flags == "VK_FENCE_CREATE_SIGNALED_BIT"

\* create_frame_sync_objects: the size of each of the three vectors it returns.
create_frame_sync_objects(f, g) == IF g.sync >= f THEN f ELSE 0

\* &swap_chain_images[0] on an empty vector ends the process (one outcome of
\* that undefined behaviour).
create_swapchain_crashes(f, g) ==
    /\ query_swapchain_support(g) /\ g.chain
    /\ g.image_count = 0
    /\ g.empty_index = "crash"

\* The optional<SwapChain> create_swapchain returns when it returns.
create_swapchain(f, g) ==
    LET swap_chain_images == [i \in 1..g.image_count |-> i]
        swapchain_image_views == create_image_views(swap_chain_images, g)
        framebuffers == create_framebuffers(swapchain_image_views, g)
        sync == create_frame_sync_objects(f, g)
    IN  IF ~query_swapchain_support(g) THEN NoSwapChain
        ELSE IF ~g.chain THEN NoSwapChain
        ELSE IF swap_chain_images = <<>> THEN NoSwapChain
        ELSE IF ~g.render_pass THEN NoSwapChain
        ELSE [has_value |-> TRUE, handle |-> TRUE, render_pass |-> TRUE,
              max_frames_in_flight |-> f, images |-> swap_chain_images,
              views |-> swapchain_image_views, framebuffes |-> framebuffers,
              image_available_semaphores |-> sync, render_finished_semaphores |-> sync,
              in_flight_fences |-> sync]

\* uint32_t values as pairs of 16-bit halves; a small dimension n is <<0, n>>.
Dimensions == {<<0, n>> : n \in 1..MaxDim}
u32_less(a, b) == a[1] < b[1] \/ (a[1] = b[1] /\ a[2] < b[2])
u32_max_value == <<65535, 65535>>

\* std::clamp(v, lo, hi)
clamp(v, lo, hi) == IF u32_less(v, lo) THEN lo ELSE IF u32_less(hi, v) THEN hi ELSE v

Extent2D(w, h) == [width |-> w, height |-> h]
NoExtent == Extent2D(<<0, 0>>, <<0, 0>>)

\* The window sizes glfwGetFramebufferSize reports.
WindowSizes == {Extent2D(w, h) : w \in Dimensions, h \in Dimensions}

\* The extents of VkSurfaceCapabilitiesKHR: the current extent is the special
\* value (UINT32_MAX, UINT32_MAX) or lies between the minimum and the maximum.
SurfaceExtents ==
    {c \in [currentExtent : WindowSizes \cup {Extent2D(u32_max_value, u32_max_value)},
            minImageExtent : {Extent2D(d, d) : d \in Dimensions},
            maxImageExtent : {Extent2D(d, d) : d \in Dimensions}] :
        /\ ~u32_less(c.maxImageExtent.width, c.minImageExtent.width)
        /\ \/ c.currentExtent.width = u32_max_value
           \/ /\ c.currentExtent.width = clamp(c.currentExtent.width, c.minImageExtent.width, c.maxImageExtent.width)
              /\ c.currentExtent.height = clamp(c.currentExtent.height, c.minImageExtent.height, c.maxImageExtent.height)}

\* choose_swap_extent(capabilities, width, height)
choose_swap_extent(c, width, height) ==
    IF c.currentExtent.width # u32_max_value
    THEN c.currentExtent
    ELSE Extent2D(clamp(width, c.minImageExtent.width, c.maxImageExtent.width),
                  clamp(height, c.minImageExtent.height, c.maxImageExtent.height))

\* The extent create_swapchain stores in the SwapChain (desired_extent) and the
\* extent it hands to create_framebuffers.
create_swapchain_extents(c, size) ==
    [swapchain |-> choose_swap_extent(c, size.width, size.height),
     framebuffers |-> Extent2D(size.width, size.height)]
NoExtents == [swapchain |-> NoExtent, framebuffers |-> NoExtent]

sc_defaults ==
    /\ sc_pc = "call"
    /\ frame_in_flights = 0
    /\ sc_gpu = [query_fails |-> "none", chain |-> TRUE, image_count |-> 0, views |-> 0,
                 render_pass |-> TRUE, framebuffers |-> 0, sync |-> 0, empty_index |-> "benign"]
    /\ swapchain = NoSwapChain
    /\ window_size = Extent2D(<<0, 1>>, <<0, 1>>)
    /\ surface_extents = [currentExtent |-> Extent2D(<<0, 1>>, <<0, 1>>),
                          minImageExtent |-> Extent2D(<<0, 1>>, <<0, 1>>),
                          maxImageExtent |-> Extent2D(<<0, 1>>, <<0, 1>>)]
    /\ extents = NoExtents

CreateSwapchain ==
    /\ sc_pc = "call"
    /\ IF create_swapchain_crashes(frame_in_flights, sc_gpu)
       THEN /\ sc_pc' = "terminated"
            /\ UNCHANGED <<swapchain, extents>>
       ELSE /\ sc_pc' = "returned"
            /\ swapchain' = create_swapchain(frame_in_flights, sc_gpu)
            /\ extents' = IF swapchain'.has_value
                          THEN create_swapchain_extents(surface_extents, window_size)
                          ELSE NoExtents
    /\ UNCHANGED <<frame_in_flights, sc_gpu, window_size, surface_extents>>

(***************************************************************************)
(* is_device_suitable                                                      *)
(***************************************************************************)
\* UINT32_MAX, the index that stands for "no family"; families are numbered from 0.
NoFamily == -1

\* A queue family: VkQueueFamilyProperties::queueCount (0 or more), the
\* VK_QUEUE_GRAPHICS_BIT of queueFlags, and what
\* vkGetPhysicalDeviceSurfaceSupportKHR reports for it.
QueueFamilies == [queue_count : 0..1, graphics : BOOLEAN, present : BOOLEAN]

FamilyLists == UNION {[1..n -> QueueFamilies] : n \in 0..MaxFamilies}

\* A physical device: whether it passes the test of the API version and image
\* dimension, whether it is a discrete GPU with geometry shaders, and its
\* queue families.
PhysicalDevices == [parameters : BOOLEAN, discrete_geometry : BOOLEAN, families : FamilyLists]

\* The first loop of is_device_suitable from family idx on, with the first
\* graphics family found so far: it returns at the first family that can present.
RECURSIVE first_loop(_, _, _)
first_loop(families, idx, graphics_queue_family_index) ==
    IF idx >= Len(families)
    THEN [returned |-> FALSE, graphics |-> graphics_queue_family_index, present |-> NoFamily]
    ELSE LET property == families[idx + 1]
             graphics == IF property.queue_count > 0 /\ property.graphics
                            /\ graphics_queue_family_index = NoFamily
                         THEN idx ELSE graphics_queue_family_index
         IN  IF property.present
             THEN [returned |-> TRUE, graphics |-> idx, present |-> idx]
             ELSE first_loop(families, idx + 1, graphics)

\* The second loop: the first family that can present.
RECURSIVE second_loop(_, _)
second_loop(families, i) ==
    IF i >= Len(families) THEN NoFamily
    ELSE IF families[i + 1].present THEN i
    ELSE second_loop(families, i + 1)

\* is_device_suitable: the value returned and the values left in the two
\* reference parameters, which hold UINT32_MAX on entry.
is_device_suitable(d) ==
    LET unsuitable == [suitable |-> FALSE, graphics |-> NoFamily, present |-> NoFamily]
        first == first_loop(d.families, 0, NoFamily)
        present_queue_family_index == second_loop(d.families, 0)
    IN  IF ~d.parameters THEN unsuitable
        ELSE IF ~d.discrete_geometry THEN unsuitable
        ELSE IF Len(d.families) = 0 THEN unsuitable
        ELSE IF first.returned
             THEN [suitable |-> TRUE, graphics |-> first.graphics, present |-> first.present]
        ELSE IF first.graphics = NoFamily \/ present_queue_family_index = NoFamily THEN unsuitable
        ELSE [suitable |-> TRUE, graphics |-> first.graphics, present |-> present_queue_family_index]

qf_defaults ==
    /\ qf_pc = "call"
    /\ physical_device = [parameters |-> FALSE, discrete_geometry |-> FALSE, families |-> <<>>]
    /\ selected = [suitable |-> FALSE, graphics |-> NoFamily, present |-> NoFamily]

IsDeviceSuitable ==
    /\ qf_pc = "call"
    /\ selected' = is_device_suitable(physical_device)
    /\ qf_pc' = "returned"
    /\ UNCHANGED physical_device

(***************************************************************************)
(* get_swap_chain_num_images. A uint32_t is a pair <<high, low>> of 16-bit *)
(* halves, so that the arithmetic keeps its 32 bits.                       *)
(***************************************************************************)
Half == 65536

u32_zero == <<0, 0>>
UINT32_MAX == <<Half - 1, Half - 1>>

\* x + 1 in uint32_t: it wraps to 0 at UINT32_MAX.
u32_inc(x) ==
    IF x[2] + 1 < Half THEN <<x[1], x[2] + 1>>
    ELSE <<(x[1] + 1) % Half, 0>>

\* a > b in uint32_t
u32_gt(a, b) == a[1] > b[1] \/ (a[1] = b[1] /\ a[2] > b[2])

\* The image counts examined: those near 0 and those near UINT32_MAX.
ImageCounts == {<<0, k>> : k \in 0..Near} \cup {<<Half - 1, Half - 1 - k>> : k \in 0..Near}

SurfaceCapabilities == [minImageCount : ImageCounts, maxImageCount : ImageCounts]

get_swap_chain_num_images(c) ==
    LET count == u32_inc(c.minImageCount)
    IN  IF u32_gt(c.maxImageCount, u32_zero) /\ u32_gt(count, c.maxImageCount)
        THEN c.maxImageCount
        ELSE count

ic_defaults ==
    /\ ic_pc = "call"
    /\ capabilities = [minImageCount |-> u32_zero, maxImageCount |-> u32_zero]
    /\ image_count = u32_zero

GetSwapChainNumImages ==
    /\ ic_pc = "call"
    /\ image_count' = get_swap_chain_num_images(capabilities)
    /\ ic_pc' = "returned"
    /\ UNCHANGED capabilities

(***************************************************************************)
(* Storage::open and Storage::get_shader on their own.                     *)
(***************************************************************************)
ShaderFiles == {f \in FileNames : is_shader(f)}

\* A root path: nothing is there, a regular file is there, or a directory
\* holding `files`.
Roots == [kind : {"missing", "file"}, files : {{}}]
         \cup [kind : {"directory"}, files : SUBSET FileNames]

RootLists == UNION {[1..n -> Roots] : n \in 0..MaxRoots}

\* A ShaderProgramInfo: the default one, and the one read_shader builds from a file.
DefaultShaderProgramInfo == [shader_type |-> "Unknown", shader_binary |-> "empty"]

get_shader_type(name) ==
    CASE name = "Base.vert.spv" -> "Vertex"
      [] name = "Base.frag.spv" -> "Fragmet"
      [] OTHER -> "Unknown"

\* read_shader on a readable file; the bytes of a file are named after the file.
read_shader(name) == [shader_type |-> get_shader_type(name), shader_binary |-> name]

\* The ResourceDesc open registers for a shader file.
ResourceDesc(r) == [id |-> r.id, name |-> r.name, in_memory |-> FALSE,
                    resource |-> DefaultShaderProgramInfo]

\* The second loop of open throws when a root is not a directory.
open_throws(ns) == \E i \in 1..Len(ns) : ns[i].kind # "directory"

\* The files of all roots.
open_files(ns) == UNION {ns[i].files : i \in 1..Len(ns)}

\* The roots the first loop of open reports as missing, in order.
open_warnings(ns) ==
    LET missing == SelectSeq([i \in 1..Len(ns) |-> [index |-> i, kind |-> ns[i].kind]],
                             LAMBDA n : n.kind = "missing")
    IN  [i \in 1..Len(missing) |-> missing[i].index]

\* An identifier that no file name hashes to.
unknown_id == "1"
RequestIds == {vert_id, frag_id, unknown_id}

\* The descriptors of all assets.
Descriptors == UNION {assets[i] : i \in 1..Len(assets)}

\* The descriptors get_shader stops at for resource_id (the mutation stops at
\* any descriptor).
find_resource_any(st, resource_id) == st
find_resource(st, resource_id) == {r \in st : r.id = resource_id}

\* What get_shader returns: the descriptor whose payload the pointer refers to
\* ("nullptr" for a null pointer), the payload there, and whether the call read
\* the file.
Returned(id, p, payload, did_read) ==
    [id |-> id, ptr |-> p, payload |-> payload, read |-> did_read]

st_defaults ==
    /\ st_pc = "closed"
    /\ names = <<>>
    /\ readable = [f \in ShaderFiles |-> TRUE]
    /\ assets = <<>>
    /\ open_returned = "none"
    /\ st_journal = <<>>
    /\ reads = [f \in ShaderFiles |-> 0]
    /\ gets = <<>>
    /\ opens = 0

\* is_asset_file that finds no name registered (the mutation).
is_asset_file_never(st, filename) == FALSE
\* is_asset_file: a resource of some asset already has this name.
is_asset_file(st, filename) == \E r \in st : r.name = filename

\* any_read: a directory root holds an .asset file.
open_any_read(ns) == \E f \in open_files(ns) : extension(f) = ".asset"

\* Storage::open(storage, names); the storage may have been opened before.
Open ==
    /\ st_pc \in {"closed", "opened"}
    /\ opens < MaxOpens
    /\ st_journal' = st_journal \o open_warnings(names)
    /\ IF open_throws(names)
       THEN /\ st_pc' = "thrown"
            /\ UNCHANGED <<assets, open_returned, opens>>
       ELSE LET files == {f \in open_files(names) : ~is_asset_file(Descriptors, f)}
                resources == {ResourceDesc(r) : r \in open_descriptors(files)}
            IN  /\ assets' = IF resources # {} THEN Append(assets, resources) ELSE assets
                /\ open_returned' = IF open_any_read(names) \/ assets' # <<>> THEN "true" ELSE "false"
                /\ opens' = opens + 1
                /\ st_pc' = "opened"
    /\ UNCHANGED <<names, readable, reads, gets>>

\* Storage::get_shader(storage, resource_id)
GetShader ==
    /\ st_pc \in {"closed", "opened"}
    /\ Len(gets) < MaxGets
    /\ \E resource_id \in RequestIds :
        LET found == find_resource(Descriptors, resource_id) IN
        IF found = {}
        THEN /\ gets' = Append(gets, Returned(resource_id, "nullptr", DefaultShaderProgramInfo, FALSE))
             /\ UNCHANGED <<assets, reads>>
        ELSE LET r == CHOOSE d \in found : TRUE
                 shader == ~r.in_memory /\ readable[r.name]
                 loaded == IF shader THEN [r EXCEPT !.resource = read_shader(r.name)] ELSE r
             IN  /\ reads' = IF ~r.in_memory THEN [reads EXCEPT ![r.name] = @ + 1] ELSE reads
                 /\ assets' = [i \in 1..Len(assets) |->
                                 IF r \in assets[i] THEN (assets[i] \ {r}) \cup {loaded}
                                 ELSE assets[i]]
                 /\ gets' = Append(gets, Returned(resource_id, r.name, loaded.resource, ~r.in_memory))
    /\ UNCHANGED <<st_pc, names, readable, open_returned, st_journal, opens>>

(***************************************************************************)
(* Vulkan::create_graphics_pipeline                                        *)
(***************************************************************************)
ShaderTypes == {"Vertex", "Fragmet", "Geometry"}
ShaderLists == UNION {[1..n -> ShaderTypes] : n \in 0..MaxShaders}

\* Which shader modules vkCreateShaderModule fails for, and whether
\* vkCreatePipelineLayout and vkCreateGraphicsPipelines fail.
PipelineOutcomes == [module_fails : SUBSET (1..MaxShaders), layout_fails : BOOLEAN, pipeline_fails : BOOLEAN]

\* Pipeline {} and Pipeline::is_valid
NoPipeline == [device |-> "null", layout |-> "null", pipeline |-> "null"]
Pipeline_is_valid(p) == p.device # "null" /\ p.layout # "null" /\ p.pipeline # "null"

\* create_shader: VK_NULL_HANDLE when vkCreateShaderModule fails.
create_shader(i, g) == IF i \in g.module_fails THEN "null" ELSE "module"

\* The loop over info.shaders: the indices whose module was created; a shader
\* whose module is null is passed over.
created_modules(sh, g) == {i \in 1..Len(sh) : create_shader(i, g) # "null"}

\* The stage bit chosen for a shader type.
stage_bit(t) ==
    CASE t = "Vertex" -> "VK_SHADER_STAGE_VERTEX_BIT"
      [] t = "Fragmet" -> "VK_SHADER_STAGE_FRAGMENT_BIT"
      [] t = "Geometry" -> "VK_SHADER_STAGE_GEOMETRY_BIT"
      [] OTHER -> "0"

\* shader_stage_create_infos: one entry, in order, for each created module.
RECURSIVE shader_stage_create_infos(_, _, _)
shader_stage_create_infos(sh, g, i) ==
    IF i > Len(sh) THEN <<>>
    ELSE (IF i \in created_modules(sh, g) THEN <<stage_bit(sh[i])>> ELSE <<>>)
         \o shader_stage_create_infos(sh, g, i + 1)

\* create_graphics_pipeline(info): the Pipeline returned, the stages of the
\* pipeline object, and what is left alive besides the returned handles.
create_graphics_pipeline(sh, g) ==
    LET modules == created_modules(sh, g) IN
    IF g.layout_fails
    THEN [p |-> NoPipeline, stages |-> <<>>, shader_modules |-> modules, leaked |-> {}]
    ELSE IF g.pipeline_fails
    THEN [p |-> NoPipeline, stages |-> <<>>, shader_modules |-> modules, leaked |-> {"pipeline_layout"}]
    ELSE [p |-> [device |-> "device", layout |-> "pipeline_layout", pipeline |-> "graphics_pipeline"],
          stages |-> shader_stage_create_infos(sh, g, 1), shader_modules |-> {}, leaked |-> {}]

pl_defaults ==
    /\ pl_pc = "call"
    /\ shaders = <<>>
    /\ pl_gpu = [module_fails |-> {}, layout_fails |-> FALSE, pipeline_fails |-> FALSE]
    /\ graphics_pipeline = NoPipeline
    /\ stages = <<>>
    /\ shader_modules = {}
    /\ pl_leaked = {}

CreateGraphicsPipeline ==
    /\ pl_pc = "call"
    /\ LET r == create_graphics_pipeline(shaders, pl_gpu) IN
        /\ graphics_pipeline' = r.p
        /\ stages' = r.stages
        /\ shader_modules' = r.shader_modules
        /\ pl_leaked' = r.leaked
    /\ pl_pc' = "returned"
    /\ UNCHANGED <<shaders, pl_gpu>>

(***************************************************************************)
(* Lifetime of the Vulkan objects of a Renderer: create_renderer, then      *)
(* destroy_renderer as Application::run calls them.                         *)
(***************************************************************************)
\* The objects a step of create_renderer creates when it succeeds.
step_objects(step) ==
    CASE step = "create_vulkan_instance" -> {"instance"}
      [] step = "glfwCreateWindowSurface" -> {"presentation_surface"}
      [] step = "create_logical_device" -> {"device"}
      [] step = "create_synchronization_objects" ->
            {"image_available_semaphore", "rendering_finished_semaphore", "in_flight_fence"}
      [] step = "vkCreateCommandPool" -> {"present_queue_command_pool"}
      [] step = "vkCreateRenderPass" -> {"render_pass"}
      [] OTHER -> {}

\* The objects alive after create_swapchain(f, g) returned a SwapChain: those
\* whose handles the SwapChain holds, and those created whose handles were
\* dropped when a later creation of the same loop failed.
swapchain_objects(f, g) ==
    LET sw == create_swapchain(f, g) IN
    [held |-> {"swapchain.handle", "swapchain.render_pass"}
              \cup (IF sw.views # <<>> THEN {"swapchain.views"} ELSE {})
              \cup (IF sw.framebuffes # <<>> THEN {"swapchain.framebuffes"} ELSE {})
              \cup (IF sw.in_flight_fences > 0
                    THEN {"swapchain.image_available_semaphores",
                          "swapchain.render_finished_semaphores", "swapchain.in_flight_fences"}
                    ELSE {}),
     dropped |-> (IF sw.views = <<>> /\ g.views > 0 THEN {"image views of a failed create_image_views"} ELSE {})
              \cup (IF sw.views # <<>> /\ sw.framebuffes = <<>> /\ g.framebuffers > 0
                    THEN {"framebuffers of a failed create_framebuffers"} ELSE {})
              \cup (IF sw.in_flight_fences = 0 /\ f > 0 /\ g.sync > 0
                    THEN {"semaphores and fences of a failed create_frame_sync_objects"} ELSE {})]

\* The objects alive after create_graphics_pipeline(shaders, g) returned.
pipeline_objects(sh, g) ==
    LET r == create_graphics_pipeline(sh, g) IN
    [held |-> IF Pipeline_is_valid(r.p)
              THEN {"graphics_pipeline.pipeline", "graphics_pipeline.layout"} ELSE {},
     dropped |-> (IF r.shader_modules # {} THEN {"shader modules"} ELSE {})
              \cup (IF r.leaked # {} THEN {"pipeline layout of a failed create_graphics_pipeline"} ELSE {})]

\* The inputs of one run: the step of create_renderer that fails ("none" if
\* none), info.validate, and the outcomes inside create_swapchain and
\* create_graphics_pipeline.
LifetimeInputs ==
    [fails_at : RendererStepSet \cup {"none"},
     validate : BOOLEAN,
     frame_in_flights : 0..MaxFrames,
     swapchain : {g \in SwapchainOutcomes : /\ g.query_fails = "none" /\ g.chain /\ g.render_pass
                                            /\ g.image_count >= 1 /\ g.empty_index = "benign"},
     pipeline : PipelineOutcomes]

\* The steps of create_renderer that ran to success before it returned.
steps_done(x) ==
    {RendererSteps[i] : i \in {j \in 1..Len(RendererSteps) :
        \A k \in 1..j : RendererSteps[k] # x.fails_at}}

\* The objects alive when create_renderer returns, and those whose handles the
\* returned Renderer holds (none when it returns an empty optional).
create_renderer_objects(x) ==
    LET sc == swapchain_objects(x.frame_in_flights, x.swapchain)
        pl == pipeline_objects(<<"Vertex", "Fragmet">>, x.pipeline)
        plain == UNION {step_objects(st) : st \in steps_done(x)}
        chain == IF "create_swapchain" \in steps_done(x) THEN sc.held \cup sc.dropped ELSE {}
    IN  IF x.fails_at # "none"
        THEN [alive |-> plain \cup chain, held |-> {}]
        ELSE [alive |-> plain \cup chain \cup pl.held \cup pl.dropped,
              held |-> plain \cup sc.held \cup pl.held]

lt_defaults ==
    /\ lt_pc = "create_renderer"
    /\ lt_in = [fails_at |-> "none", validate |-> FALSE, frame_in_flights |-> 0,
                swapchain |-> [query_fails |-> "none", chain |-> TRUE, image_count |-> 1, views |-> 1,
                               render_pass |-> TRUE, framebuffers |-> 1, sync |-> 0,
                               empty_index |-> "benign"],
                pipeline |-> [module_fails |-> {}, layout_fails |-> FALSE, pipeline_fails |-> FALSE]]
    /\ lt_alive = {}
    /\ lt_held = {}
    /\ lt_done = 0
    /\ lt_destroyed = <<>>

\* create_renderer and the test of its result in run: run returns when the
\* optional is empty and goes on to destroy_renderer otherwise.
CreateRendererObjects ==
    /\ lt_pc = "create_renderer"
    /\ LET r == create_renderer_objects(lt_in) IN
        /\ lt_alive' = r.alive
        /\ lt_held' = r.held
    /\ lt_pc' = IF lt_in.fails_at # "none" THEN "returned" ELSE "destroy_renderer"
    /\ UNCHANGED <<lt_in, lt_done, lt_destroyed>>

\* The next call of destroy_renderer: vkDestroy* on a handle the Renderer holds
\* destroys the object; on VK_NULL_HANDLE it does nothing.
DestroyRendererCall ==
    /\ lt_pc = "destroy_renderer"
    /\ LET calls == destroy_renderer_calls(lt_in.validate)
           c == calls[lt_done + 1]
       IN  /\ IF c.object \in lt_held
              THEN /\ lt_alive' = lt_alive \ {c.object}
                   /\ lt_destroyed' = Append(lt_destroyed, c.object)
              ELSE UNCHANGED <<lt_alive, lt_destroyed>>
           /\ lt_done' = lt_done + 1
           /\ lt_pc' = IF lt_done + 1 = Len(calls) THEN "returned" ELSE "destroy_renderer"
    /\ UNCHANGED <<lt_in, lt_held>>

(***************************************************************************)
(* Specifications                                                          *)
(***************************************************************************)
more_defaults ==
    /\ pl_defaults
    /\ lt_defaults

lib_defaults ==
    /\ td_defaults
    /\ sc_defaults
    /\ qf_defaults
    /\ ic_defaults
    /\ st_defaults
    /\ more_defaults

\* begin_frame called again and again on a renderer whose swapchain has F slots.
InitFrame ==
    /\ pc = "returned"
    /\ frame = 0
    /\ ret = [n \in Frames |-> "none"]
    /\ max_frames_in_flight \in 1..MaxFrames
    /\ current_frame = 0
    /\ in_flight_fence = TRUE
    /\ sem = [s \in Semaphores |-> FALSE]
    /\ acq = [n \in Frames |-> "none"]
    /\ sub = [n \in Frames |-> "none"]
    /\ pres = [n \in Frames |-> "none"]
    /\ acq_pending = {}
    /\ image_ready = [n \in Frames |-> FALSE]
    /\ batch = [n \in Frames |-> "none"]
    /\ resets = [n \in Frames |-> FALSE]
    /\ present_queue = <<>>
    /\ presented = [n \in Frames |-> FALSE]
    /\ journal = <<>>
    /\ app_defaults
    /\ dev_defaults
    /\ lib_defaults

NextFrame ==
    \/ (CallBeginFrame /\ UNCHANGED <<app_vars, dev_vars, lib_vars>>)
    \/ (WaitForFences /\ UNCHANGED <<app_vars, dev_vars, lib_vars>>)
    \/ (ResetFences /\ UNCHANGED <<app_vars, dev_vars, lib_vars>>)
    \/ (AcquireNextImage /\ UNCHANGED <<app_vars, dev_vars, lib_vars>>)
    \/ (ResetCommandBuffer /\ UNCHANGED <<app_vars, dev_vars, lib_vars>>)
    \/ (QueueSubmit /\ UNCHANGED <<app_vars, dev_vars, lib_vars>>)
    \/ (QueuePresent /\ UNCHANGED <<app_vars, dev_vars, lib_vars>>)
    \/ (ImageAcquired /\ UNCHANGED <<app_vars, dev_vars, lib_vars>>)
    \/ (ColourOutputBegins /\ UNCHANGED <<app_vars, dev_vars, lib_vars>>)
    \/ (BatchCompletes /\ UNCHANGED <<app_vars, dev_vars, lib_vars>>)
    \/ (PresentationEngine /\ UNCHANGED <<app_vars, dev_vars, lib_vars>>)

SpecFrame == InitFrame /\ [][NextFrame]_vars

\* Application::run
Init ==
    /\ frame_defaults
    /\ app_defaults
    /\ dev_defaults
    /\ lib_defaults

Next ==
    \/ StorageOpen
    \/ CreateWindow
    \/ CreateRenderer
    \/ DrawFrame
    \/ ProcessWindowEvents
    \/ DestroyRenderer
    \/ DestroyWindow
    \/ Terminate

Spec == Init /\ [][Next]_vars

\* create_device over every CreateDeviceInfo and every outcome of its GPU calls
InitDevice ==
    /\ dev_pc = "call"
    /\ info \in DeviceInfos
    /\ gpu \in DeviceOutcomes
    /\ device = NullDevice
    /\ frame_defaults
    /\ app_defaults
    /\ lib_defaults

NextDevice == CreateDevice

SpecDevice == InitDevice /\ [][NextDevice]_vars

\* destroy_device on every valid Device, and destroy_renderer on a renderer
\* with and without validation, while the GPU may still execute submitted work.
InitTeardown ==
    /\ \/ \E d \in ValidDevices :
            /\ td_kind = "destroy_device"
            /\ td_device = d
            /\ td_calls = destroy_device_calls(d)
       \/ \E debug \in BOOLEAN :
            /\ td_kind = "destroy_renderer"
            /\ td_device = NullDevice
            /\ td_calls = destroy_renderer_calls(debug)
    /\ td_done = 0
    /\ gpu_busy \in BOOLEAN
    /\ td_wait = "none"
    /\ td_hazard = {}
    /\ frame_defaults
    /\ app_defaults
    /\ dev_defaults
    /\ more_defaults
    /\ sc_defaults
    /\ qf_defaults
    /\ ic_defaults
    /\ st_defaults

NextTeardown ==
    \/ (DestroyCall /\ UNCHANGED <<frame_vars, app_vars, dev_vars, more_vars, sc_vars, qf_vars, ic_vars, st_vars>>)
    \/ (DeviceWaitIdle /\ UNCHANGED <<frame_vars, app_vars, dev_vars, more_vars, sc_vars, qf_vars, ic_vars, st_vars>>)
    \/ (GpuCompletes /\ UNCHANGED <<frame_vars, app_vars, dev_vars, more_vars, sc_vars, qf_vars, ic_vars, st_vars>>)

SpecTeardown == InitTeardown /\ [][NextTeardown]_vars

\* create_swapchain for every number of frame slots and every outcome of its
\* GPU calls
InitSwapchain ==
    /\ sc_pc = "call"
    /\ frame_in_flights \in 0..MaxFrames
    /\ sc_gpu \in SwapchainOutcomes
    /\ swapchain = NoSwapChain
    /\ window_size = Extent2D(<<0, 1>>, <<0, 1>>)
    /\ surface_extents = [currentExtent |-> Extent2D(<<0, 1>>, <<0, 1>>),
                          minImageExtent |-> Extent2D(<<0, 1>>, <<0, 1>>),
                          maxImageExtent |-> Extent2D(<<0, 1>>, <<0, 1>>)]
    /\ extents = NoExtents
    /\ frame_defaults
    /\ app_defaults
    /\ dev_defaults
    /\ more_defaults
    /\ td_defaults
    /\ qf_defaults
    /\ ic_defaults
    /\ st_defaults

NextSwapchain == CreateSwapchain /\ UNCHANGED <<frame_vars, app_vars, dev_vars, more_vars, td_vars, qf_vars, ic_vars, st_vars>>

SpecSwapchain == InitSwapchain /\ [][NextSwapchain]_vars

\* create_swapchain with every Vulkan call succeeding, for every window size
\* and every extent range of the surface
InitExtent ==
    /\ sc_pc = "call"
    /\ frame_in_flights \in 1..MaxFrames
    /\ sc_gpu \in {[query_fails |-> "none", chain |-> TRUE, image_count |-> n, views |-> n,
                     render_pass |-> TRUE, framebuffers |-> n, sync |-> MaxFrames,
                     empty_index |-> "benign"] : n \in 1..MaxImages}
    /\ swapchain = NoSwapChain
    /\ window_size \in WindowSizes
    /\ surface_extents \in SurfaceExtents
    /\ extents = NoExtents
    /\ frame_defaults
    /\ app_defaults
    /\ dev_defaults
    /\ more_defaults
    /\ td_defaults
    /\ qf_defaults
    /\ ic_defaults
    /\ st_defaults

SpecExtent == InitExtent /\ [][NextSwapchain]_vars

\* is_device_suitable on every physical device with up to MaxFamilies families
InitSuitable ==
    /\ qf_pc = "call"
    /\ physical_device \in PhysicalDevices
    /\ selected = [suitable |-> FALSE, graphics |-> NoFamily, present |-> NoFamily]
    /\ frame_defaults
    /\ app_defaults
    /\ dev_defaults
    /\ more_defaults
    /\ td_defaults
    /\ sc_defaults
    /\ ic_defaults
    /\ st_defaults

NextSuitable == IsDeviceSuitable /\ UNCHANGED <<frame_vars, app_vars, dev_vars, more_vars, td_vars, sc_vars, ic_vars, st_vars>>

SpecSuitable == InitSuitable /\ [][NextSuitable]_vars

\* get_swap_chain_num_images on every pair of image counts examined
InitNumImages ==
    /\ ic_pc = "call"
    /\ capabilities \in SurfaceCapabilities
    /\ image_count = u32_zero
    /\ frame_defaults
    /\ app_defaults
    /\ dev_defaults
    /\ more_defaults
    /\ td_defaults
    /\ sc_defaults
    /\ qf_defaults
    /\ st_defaults

NextNumImages == GetSwapChainNumImages /\ UNCHANGED <<frame_vars, app_vars, dev_vars, more_vars, td_vars, sc_vars, qf_vars, st_vars>>

SpecNumImages == InitNumImages /\ [][NextNumImages]_vars

\* open on every list of up to MaxRoots roots, then up to MaxGets calls of
\* get_shader, with every choice of which shader files can be read
InitStorage ==
    /\ st_pc = "closed"
    /\ names \in RootLists
    /\ readable \in [ShaderFiles -> BOOLEAN]
    /\ assets = <<>>
    /\ open_returned = "none"
    /\ st_journal = <<>>
    /\ reads = [f \in ShaderFiles |-> 0]
    /\ gets = <<>>
    /\ opens = 0
    /\ frame_defaults
    /\ app_defaults
    /\ dev_defaults
    /\ more_defaults
    /\ td_defaults
    /\ sc_defaults
    /\ qf_defaults
    /\ ic_defaults

NextStorage ==
    \/ (Open /\ UNCHANGED <<frame_vars, app_vars, dev_vars, more_vars, td_vars, sc_vars, qf_vars, ic_vars>>)
    \/ (GetShader /\ UNCHANGED <<frame_vars, app_vars, dev_vars, more_vars, td_vars, sc_vars, qf_vars, ic_vars>>)

SpecStorage == InitStorage /\ [][NextStorage]_vars

\* create_graphics_pipeline on every list of up to MaxShaders shaders and
\* every outcome of its Vulkan calls
InitPipeline ==
    /\ pl_pc = "call"
    /\ shaders \in ShaderLists
    /\ pl_gpu \in PipelineOutcomes
    /\ graphics_pipeline = NoPipeline
    /\ stages = <<>>
    /\ shader_modules = {}
    /\ pl_leaked = {}
    /\ lt_defaults
    /\ frame_defaults
    /\ app_defaults
    /\ dev_defaults
    /\ td_defaults
    /\ sc_defaults
    /\ qf_defaults
    /\ ic_defaults
    /\ st_defaults

NextPipeline == CreateGraphicsPipeline /\ UNCHANGED <<frame_vars, app_vars, dev_vars, td_vars, sc_vars, qf_vars, ic_vars, st_vars, lt_vars>>

SpecPipeline == InitPipeline /\ [][NextPipeline]_vars

\* create_renderer with every failing step and every outcome inside
\* create_swapchain and create_graphics_pipeline, then destroy_renderer
InitLifetime ==
    /\ lt_pc = "create_renderer"
    /\ lt_in \in LifetimeInputs
    /\ lt_alive = {}
    /\ lt_held = {}
    /\ lt_done = 0
    /\ lt_destroyed = <<>>
    /\ pl_defaults
    /\ frame_defaults
    /\ app_defaults
    /\ dev_defaults
    /\ td_defaults
    /\ sc_defaults
    /\ qf_defaults
    /\ ic_defaults
    /\ st_defaults

NextLifetime ==
    \/ (CreateRendererObjects /\ UNCHANGED <<frame_vars, app_vars, dev_vars, td_vars, sc_vars, qf_vars, ic_vars, st_vars, pl_vars>>)
    \/ (DestroyRendererCall /\ UNCHANGED <<frame_vars, app_vars, dev_vars, td_vars, sc_vars, qf_vars, ic_vars, st_vars, pl_vars>>)

SpecLifetime == InitLifetime /\ [][NextLifetime]_vars

(***************************************************************************)
(* Properties                                                              *)
(***************************************************************************)
AcquireOk == {"VK_SUCCESS", "VK_SUBOPTIMAL_KHR"}
AcquisitionMessage == "Problem occurred during swap chain image acquisition!"

\* Command buffers in flight: the one being recorded (reset, not yet submitted)
\* and those submitted whose fence has not signaled.
InFlight == (IF pc = "vkQueueSubmit" THEN 1 ELSE 0) + Cardinality(Outstanding)

\* C1: with F frame slots, the number of command buffers that are being recorded,
\* or are submitted with their fence not yet signaled, never exceeds F.
C1_AtMostFInFlight == InFlight <= max_frames_in_flight

\* A second frame is in flight after the first one completed.
C1_Witness == frame >= 2 /\ batch[frame] = "queued" /\ batch[frame - 1] = "complete"

\* C2: whenever begin_frame is about to reset the command buffer, or has reset it
\* and not yet submitted it, no GPU execution of an earlier submission is
\* outstanding (the fence wait for that submission has returned).
C2_NoResetWhileExecuting ==
    pc \in {"vkResetCommandBuffer", "vkQueueSubmit"} =>
        /\ Outstanding = {}
        /\ \A n \in Frames : n < frame /\ sub[n] = "VK_SUCCESS" => batch[n] = "complete"

\* The command buffer is reset again after an earlier frame submitted it.
C2_Witness == frame >= 2 /\ pc = "vkQueueSubmit" /\ resets[frame] /\ sub[frame - 1] = "VK_SUCCESS"

\* C3: a failure at acquire, submit or present never stops the loop: every later
\* fence wait returns, given that the GPU completes every submitted batch. A
\* wait returns exactly when the fence is signaled or a submitted batch is still
\* to signal it.
C3_FenceWaitReturns == pc = "vkWaitForFences" => (in_flight_fence \/ Outstanding # {})

\* C4: slots are used round-robin from slot 0: the iteration numbered n
\* (n = 0, 1, 2, ...) runs on slot n mod F.
C4_RoundRobin == frame >= 1 => current_frame = (frame - 1) % max_frames_in_flight

\* C5: for every frame, colour output does not begin before the presentation
\* engine released the acquired image, and the image is not presented before its
\* rendering completed.
C5_AcquireColourPresent ==
    \A n \in Frames :
        /\ batch[n] \in {"colour_output", "complete"} => image_ready[n]
        /\ presented[n] => batch[n] = "complete"

\* A frame that reused the semaphores of an earlier frame was presented.
C5_Witness == presented[1] /\ presented[2]

\* C6: each call of draw_frame acquires an image, records the command buffer,
\* submits it and presents the image: after k calls there were k of each.
C6_DrawFrameRunsTheFrame ==
    app_pc = "process_window_events" =>
        /\ Cardinality({n \in Frames : acq[n] # "none"}) = draws
        /\ Cardinality({n \in Frames : resets[n]}) = draws
        /\ Cardinality({n \in Frames : sub[n] # "none"}) = draws
        /\ Cardinality({n \in Frames : pres[n] # "none"}) = draws

\* The acquisition failures begin_frame logged so far.
AcquisitionsLogged == Cardinality({i \in 1..Len(journal) : journal[i] = AcquisitionMessage})

\* C7 as stated: after a successful or suboptimal acquisition the iteration
\* resets the command buffer, submits and presents; after any other result it
\* logs the condition and neither submits nor presents.
C7_AcquireOutcomes ==
    /\ \A n \in Frames : ret[n] # "none" =>
        IF acq[n] \in AcquireOk
        THEN resets[n] /\ sub[n] # "none" /\ pres[n] # "none"
        ELSE ~resets[n] /\ sub[n] = "none" /\ pres[n] = "none"
    /\ AcquisitionsLogged = Cardinality({n \in Frames : acq[n] \notin AcquireOk \cup {"none"}})

\* C7 amended: the iteration presents exactly when the submit succeeded.
C7_AcquireOutcomesAmended ==
    /\ \A n \in Frames : ret[n] # "none" =>
        IF acq[n] \in AcquireOk
        THEN resets[n] /\ sub[n] # "none" /\ (pres[n] # "none" <=> sub[n] = "VK_SUCCESS")
        ELSE ~resets[n] /\ sub[n] = "none" /\ pres[n] = "none"
    /\ AcquisitionsLogged = Cardinality({n \in Frames : acq[n] \notin AcquireOk \cup {"none"}})

\* A suboptimal acquisition went on to present, and a later out-of-date one
\* returned without submitting.
C7_Witness ==
    /\ acq[1] = "VK_SUBOPTIMAL_KHR" /\ pres[1] # "none"
    /\ acq[2] = "VK_ERROR_OUT_OF_DATE_KHR" /\ ret[2] = "false"

\* C8: run is past the loop only when the window's close flag is set and
\* process_window_events returned false; the flag is tested once per iteration,
\* after each draw_frame; and a run that returns success has destroyed the
\* renderer, then the window, then terminated GLFW, after creating them in the
\* opposite order.
C8_LoopExitAndTeardown ==
    /\ app_pc \in {"destroy_renderer", "destroy_window", "glfwTerminate"} \/ status = "EXIT_SUCCESS"
         => should_close /\ ~running /\ polls = draws /\ draws >= 1
    /\ app_pc = "draw_frame" => running /\ polls = draws
    /\ app_pc = "process_window_events" => polls + 1 = draws
    /\ status = "EXIT_SUCCESS" =>
         trace = <<"glfwInit", "create_window", "create_renderer",
                   "destroy_renderer", "destroy_window", "glfwTerminate">>

\* run returned success after several iterations of the loop.
C8_Witness == status = "EXIT_SUCCESS" /\ draws >= 2

\* C9: once a bootstrap step has failed, draw_frame is never called, run never
\* returns success, and when run returns it returns the failure status.
C9_BootstrapFailureExits ==
    failed_step # "none" =>
        /\ draws = 0
        /\ status # "EXIT_SUCCESS"
        /\ app_pc = "returned" => status = "EXIT_FAILURE"

\* Every creation step of create_device succeeded.
AllCreated(i, g) ==
    /\ g.instance /\ g.surface /\ g.physical_device /\ g.logical_device /\ g.command_pool
    /\ g.command_buffers >= i.max_frames_in_flight

\* C10: the Device create_device returns is valid exactly when instance, surface,
\* physical device, logical device, command pool and all F command buffers were
\* created (whatever became of the debug messenger); a valid Device holds the
\* pool and F command buffers; an invalid one holds nothing.
C10_AllOrNothing ==
    dev_pc = "created" =>
        /\ Device_is_valid(device) <=> AllCreated(info, gpu)
        /\ Device_is_valid(device) =>
             /\ device.physical_device /\ device.present_queue_command_pool
             /\ device.present_queue_command_buffers = info.max_frames_in_flight
        /\ ~Device_is_valid(device) => device = NullDevice

\* A valid Device although the debug messenger could not be registered.
C10_Witness ==
    /\ dev_pc = "created" /\ Device_is_valid(device)
    /\ info.validate /\ ~gpu.debug_messenger /\ info.max_frames_in_flight = MaxFrames

\* The calls of the running teardown that have returned, and the objects they
\* released, in order.
TdTrace == SubSeq(td_calls, 1, td_done)
Released == LET r == SelectSeq(TdTrace, LAMBDA c : c.object # "none")
            IN [i \in 1..Len(r) |-> r[i].object]
Reverse(q) == [i \in 1..Len(q) |-> q[Len(q) + 1 - i]]
IdleWaitReturnedBefore(i) == \E j \in 1..(i - 1) : td_calls[j].call = "vkDeviceWaitIdle"

\* C11: destroy_device releases the objects of the Device in the reverse of the
\* order create_device created them, and vkDeviceWaitIdle has returned before
\* the first of them is released.
C11_ReverseOrderAfterIdle ==
    td_kind = "destroy_device" =>
        /\ \A i \in 1..td_done : td_calls[i].object # "none" => IdleWaitReturnedBefore(i)
        /\ td_done = Len(td_calls) => Released = Reverse(create_device_order(td_device))

\* C12: destroy_renderer calls destroy_swapchain only after vkDeviceWaitIdle has
\* returned, and so releases no object of the swapchain while the GPU executes.
C12_SwapchainDestroyedAfterIdle ==
    td_kind = "destroy_renderer" =>
        /\ \A i \in 1..td_done : td_calls[i].by = "destroy_swapchain" => IdleWaitReturnedBefore(i)
        /\ \A i \in 1..Len(destroy_swapchain_calls) :
              destroy_swapchain_calls[i].object \notin td_hazard

\* A GPU call create_swapchain makes fails.
SwapchainCallFails(f, g) ==
    \/ g.query_fails # "none"
    \/ ~g.chain
    \/ g.views < g.image_count
    \/ ~g.render_pass
    \/ g.framebuffers < Len(create_image_views([i \in 1..g.image_count |-> i], g))
    \/ g.sync < f

\* C13: a SwapChain that create_swapchain returns has as many image views and
\* framebuffers as images, view i is of image i and framebuffer i is bound to
\* view i.
C13_EqualCounts ==
    sc_pc = "returned" /\ swapchain.has_value =>
        /\ Len(swapchain.images) = Len(swapchain.views)
        /\ Len(swapchain.views) = Len(swapchain.framebuffes)
        /\ \A i \in 1..Len(swapchain.images) :
              swapchain.views[i] = swapchain.images[i] /\ swapchain.framebuffes[i] = swapchain.views[i]

\* C14: when a surface query, the chain creation, an image-view creation, the
\* render-pass creation, a framebuffer creation or a semaphore or fence creation
\* fails, create_swapchain returns an empty optional.
C14_FailureReturnsEmpty ==
    sc_pc = "returned" /\ SwapchainCallFails(frame_in_flights, sc_gpu) => ~swapchain.has_value

\* What a queue family supports, by its index.
SupportsGraphics(i) ==
    /\ i # NoFamily
    /\ physical_device.families[i + 1].queue_count > 0 /\ physical_device.families[i + 1].graphics
SupportsPresent(i) == i # NoFamily /\ physical_device.families[i + 1].present
FamilyIndices == 0..(Len(physical_device.families) - 1)
First(S) == IF S = {} THEN NoFamily ELSE CHOOSE i \in S : \A j \in S : i <= j

\* C15: for a device found suitable, one family is selected for both roles when
\* some family supports both graphics and presentation; otherwise the first
\* graphics family and the first presenting family are selected; and the
\* family selected for graphics supports graphics, the one for presentation
\* supports presentation.
C15_QueueFamilySelection ==
    qf_pc = "returned" /\ selected.suitable =>
        /\ IF \E i \in FamilyIndices : SupportsGraphics(i) /\ SupportsPresent(i)
           THEN selected.graphics = selected.present
           ELSE /\ selected.graphics = First({i \in FamilyIndices : SupportsGraphics(i)})
                /\ selected.present = First({i \in FamilyIndices : SupportsPresent(i)})
        /\ SupportsGraphics(selected.graphics)
        /\ SupportsPresent(selected.present)

\* a >= b for 32-bit counts
CountAtLeast(a, b) == ~u32_gt(b, a)

\* C16: the count requested is minImageCount + 1, reduced to maxImageCount
\* exactly when maxImageCount is not 0 and is smaller than minImageCount + 1 (that
\* is, at most minImageCount); it is never reduced when maxImageCount is 0; and
\* when maxImageCount is 0 or at least minImageCount the count is at least
\* minImageCount. minImageCount + 1 is the integer sum, which a 32-bit result
\* equals only below UINT32_MAX.
C16_NumImages ==
    ic_pc = "returned" =>
        LET min == capabilities.minImageCount
            max == capabilities.maxImageCount
            reduced == max # u32_zero /\ CountAtLeast(min, max)
        IN  /\ IF reduced
               THEN image_count = max
               ELSE min # UINT32_MAX /\ image_count = u32_inc(min)
            /\ (max = u32_zero \/ CountAtLeast(max, min)) => CountAtLeast(image_count, min)

\* The shader file an identifier is the hash of, if any.
FilesOfId(id) == {f \in ShaderFiles : get_resource_id(f) = id}

\* C17: a get_shader call whose identifier matches no descriptor returns a null
\* pointer, reads no file, changes no descriptor and leaves the store usable,
\* whatever the store holds.
C17_UnknownIdReturnsNothing ==
    [][(/\ Len(gets') = Len(gets) + 1
        /\ \A r \in Descriptors : r.id # gets'[Len(gets')].id)
       => /\ gets'[Len(gets')].ptr = "nullptr"
          /\ ~gets'[Len(gets')].read
          /\ assets' = assets
          /\ reads' = reads
          /\ st_pc' = st_pc]_vars

\* A store that holds both shaders answered a known identifier and then an
\* unknown one.
C17_Witness ==
    /\ st_pc = "opened" /\ Cardinality(Descriptors) = 2
    /\ Len(gets) = 2
    /\ gets[1].ptr # "nullptr"
    /\ gets[2].id = unknown_id /\ gets[2].ptr = "nullptr"

\* C18: the first get_shader that reads the file of an identifier sets the
\* in-memory flag of the descriptor, and every later get_shader for that
\* identifier returns the same payload at the same place without reading the
\* file again.
C18_MemoizeOnRead ==
    \A i \in 1..Len(gets) :
        gets[i].ptr # "nullptr" /\ gets[i].read /\ readable[gets[i].ptr] =>
            /\ \A r \in Descriptors : r.name = gets[i].ptr => r.in_memory
            /\ \A j \in (i + 1)..Len(gets) :
                  gets[j].id = gets[i].id =>
                      /\ ~gets[j].read
                      /\ gets[j].ptr = gets[i].ptr
                      /\ gets[j].payload = gets[i].payload

\* C19: a get_shader call that finds the descriptor and cannot read its file
\* returns a null pointer, and the store stays usable.
C19_UnreadableReturnsNothing ==
    \A i \in 1..Len(gets) :
        gets[i].read /\ (\E f \in FilesOfId(gets[i].id) : ~readable[f]) =>
            gets[i].ptr = "nullptr" /\ st_pc # "thrown"

\* C20: when every root is a directory or missing, open returns normally, has
\* reported each missing root, has registered the shaders of every directory,
\* and returns false exactly when no root held any file.
C20_MissingRootIsSkipped ==
    /\ st_pc \in {"opened", "thrown"}
    /\ \A i \in 1..Len(names) : names[i].kind \in {"missing", "directory"}
    => /\ st_pc = "opened"
       /\ st_journal = IF opens = 2 THEN open_warnings(names) \o open_warnings(names)
                       ELSE open_warnings(names)
       /\ {r.name : r \in Descriptors}
            = {f \in ShaderFiles : \E i \in 1..Len(names) : f \in names[i].files}
       /\ open_returned = "false" <=> (\A i \in 1..Len(names) : names[i].files = {})

\* The shader files found under the roots, one for each root that holds one, and
\* the names they bear.
ShaderFilesFound == {x \in (1..Len(names)) \X FileNames :
                        x[2] \in names[x[1]].files /\ extension(x[2]) = ".spv"}
ShaderNamesFound == {x[2] : x \in ShaderFilesFound}

\* C21 as stated: after open has returned, the storage holds one descriptor for
\* each shader file found under the roots and none for other files, every
\* descriptor holds a shader payload, and the identifiers are pairwise distinct.
C21_OneDescriptorPerFile ==
    st_pc = "opened" /\ opens >= 1 =>
        /\ Cardinality(Descriptors) = Cardinality(ShaderFilesFound)
        /\ \A r \in Descriptors : r.name \in ShaderNamesFound
        /\ \A r \in Descriptors : r.resource.shader_type \in {"Unknown", "Vertex", "Fragmet"}
        /\ \A r, q \in Descriptors : r # q => r.id # q.id

\* C21 amended: one descriptor for each distinct shader file name found.
C21_OneDescriptorPerName ==
    st_pc = "opened" /\ opens >= 1 =>
        /\ Cardinality(Descriptors) = Cardinality(ShaderNamesFound)
        /\ {r.name : r \in Descriptors} = ShaderNamesFound
        /\ \A r \in Descriptors : r.resource.shader_type \in {"Unknown", "Vertex", "Fragmet"}
        /\ \A r, q \in Descriptors : r # q => r.id # q.id

\* One root holding both shaders and a file of another kind was opened.
C21_Witness ==
    /\ st_pc = "opened" /\ opens = 1
    /\ names = <<[kind |-> "directory", files |-> FileNames]>>
    /\ Cardinality(Descriptors) = 2

\* C30: a second open with the same roots on the same storage registers no
\* further descriptor and no further asset group.
C30_SecondOpenAddsNothing ==
    [][opens = 1 /\ opens' = 2 => assets' = assets /\ Len(assets') <= 1]_vars

\* Both shaders were registered by the first open, and a second open returned.
C30_Witness ==
    /\ opens = 2
    /\ Len(assets) = 1
    /\ {r.name : r \in Descriptors} = {"Base.vert.spv", "Base.frag.spv"}

\* Some creation step of create_graphics_pipeline failed.
PipelineCallFails ==
    \/ \E i \in 1..Len(shaders) : i \in pl_gpu.module_fails
    \/ pl_gpu.layout_fails
    \/ pl_gpu.pipeline_fails

\* C22: create_graphics_pipeline returns an invalid Pipeline whenever the
\* creation of a supplied shader module, of the layout or of the pipeline
\* object fails, and a Pipeline it returns was built from every supplied stage.
C22_FailureReturnsInvalid ==
    pl_pc = "returned" =>
        /\ PipelineCallFails => ~Pipeline_is_valid(graphics_pipeline)
        /\ Pipeline_is_valid(graphics_pipeline) => stages = [i \in 1..Len(shaders) |-> stage_bit(shaders[i])]

\* C26: every shader module created inside create_graphics_pipeline has been
\* destroyed when it returns, on success and on failure.
C26_ModulesDestroyedAtReturn ==
    pl_pc = "returned" => shader_modules = {}

\* C23: begin_frame reaches its acquire only when no batch submitted with the
\* fence is outstanding, and a semaphore is signaled (image_available_semaphore
\* by an acquisition, rendering_finished_semaphore by a completed batch) only
\* when the wait paired with its previous signal has consumed it.
C23_SemaphoreSignalsPairWithWaits ==
    [][/\ (pc = "vkAcquireNextImageKHR" /\ pc' # pc) => Outstanding = {}
       /\ (\E n \in acq_pending : n \notin acq_pending') => ~sem[acquire_signal_semaphore]
       /\ (\E n \in Frames : batch[n] = "colour_output" /\ batch'[n] = "complete")
              => ~sem[submit_signal_semaphore]]_vars

\* C28: a Renderer reports is_valid() exactly when its instance, physical
\* device, logical device and swapchain have all been created.
C28_ValidIffAllCreated ==
    Renderer_is_valid(renderer) <=>
        (renderer.instance /\ renderer.physical_device /\ renderer.device /\ renderer.swapchain)

\* C25: destroy_swapchain releases the framebuffers, then the render pass, then
\* the image views, then the chain handle.
C25_SwapchainReleaseOrder ==
    td_kind = "destroy_renderer" /\ td_done = Len(td_calls) =>
        SelectSeq(Released, LAMBDA o : o \in {"swapchain.framebuffes", "swapchain.render_pass",
                                              "swapchain.views", "swapchain.handle"})
            = <<"swapchain.framebuffes", "swapchain.render_pass", "swapchain.views", "swapchain.handle">>

\* C29: every framebuffer create_swapchain creates has the extent stored in the
\* SwapChain it returns.
C29_FramebufferExtentIsSwapchainExtent ==
    sc_pc = "returned" /\ swapchain.has_value /\ swapchain.framebuffes # <<>> =>
        extents.framebuffers = extents.swapchain

\* C27: a SwapChain create_swapchain returns for F frame slots holds F fences,
\* each created signaled, F image-available semaphores and F render-finished
\* semaphores.
C27_SignaledFencePerSlot ==
    sc_pc = "returned" /\ swapchain.has_value =>
        /\ fence_create_info_flags = "VK_FENCE_CREATE_SIGNALED_BIT"
        /\ swapchain.in_flight_fences = swapchain.max_frames_in_flight
        /\ swapchain.image_available_semaphores = swapchain.max_frames_in_flight
        /\ swapchain.render_finished_semaphores = swapchain.max_frames_in_flight

\* The objects allocated from the logical device.
DeviceObjects(S) == S \ {"instance", "presentation_surface", "device"}

\* C24: the logical device is destroyed only when no object allocated from it
\* is alive, the surface and the instance only after the device, and no object
\* is destroyed twice.
C24_DeviceOutlivesItsObjects ==
    /\ (\E i \in 1..Len(lt_destroyed) : lt_destroyed[i] = "device") => DeviceObjects(lt_alive) = {}
    /\ \A i \in 1..Len(lt_destroyed) :
          lt_destroyed[i] \in {"presentation_surface", "instance"} =>
              \E j \in 1..(i - 1) : lt_destroyed[j] = "device"
    /\ \A i, j \in 1..Len(lt_destroyed) : i # j => lt_destroyed[i] # lt_destroyed[j]

====
